---- MODULE Spec2Model ----
(***************************************************************************)
(* Model of TokenRenderer (token_renderer.py): the markdown token layout   *)
(* engine.  Text is a sequence of one-character strings, a token (run) is  *)
(* a record [type, text], a line is a sequence of tokens and the output    *)
(* (_lines) is a sequence of lines.  Every method of the class is an       *)
(* operator from the renderer's state record to the state record after the *)
(* call; every driver event is one action.                                 *)
(***************************************************************************)
EXTENDS Integers, Sequences, FiniteSets, TLC

VARIABLES
  width,             \* Renderer._width
  height,            \* _height, 0 disables the height check
  compact,           \* _compact
  fill,              \* _fill
  current_token_type,\* _current_token_type
  ignore_paragraph,  \* _ignore_paragraph
  ignore_width,      \* _ignore_width
  indent,            \* _indent, entry k+1 is Python's _indent[k]
  level,             \* _level
  lines,             \* _lines
  tokens,            \* _tokens
  truncated,         \* _truncated
  blank,             \* Renderer._blank
  font,              \* Renderer._font, the set of attributes whose bit is set
  raised,            \* the exception that ended the session, "none" if none
  last,              \* the driver's most recent call: [op, ...arguments]
  returned,          \* the control sequence that call returned, None if none
  nevents,           \* number of driver calls made so far
  frame              \* the local variables of a loop of Synopsis in progress

vars == <<width, height, compact, fill, current_token_type, ignore_paragraph,
          ignore_width, indent, level, lines, tokens, truncated, blank, font,
          raised, last, returned, nevents, frame>>

(***************************************************************************)
(* Class constants.                                                        *)
(***************************************************************************)
CSI == "NUL"
INDENT == 4
SPLIT_INDENT == 2
EMBELLISHMENTS ==
  [c \in {"B", "C", "I", "N", "Z"} |->
     CASE c = "B" -> "Bold"
       [] c = "C" -> "Code"
       [] c = "I" -> "Italic"
       [] c = "N" -> "Normal"
       [] c = "Z" -> "BoldItalic"]

(***************************************************************************)
(* Python string helpers.                                                  *)
(***************************************************************************)
Max(a, b) == IF a >= b THEN a ELSE b
Min(a, b) == IF a <= b THEN a ELSE b

\* ' ' * n (the empty string when n <= 0)
Spaces(n) == [i \in 1..Max(n, 0) |-> " "]

\* text[i:] and text[i:j] with Python's 0-based indices, 0 <= i
From(text, i) == SubSeq(text, i + 1, Len(text))
Slice(text, i, j) == SubSeq(text, i + 1, Min(j, Len(text)))

\* text[:n]; a negative n counts from the end
Prefix(text, n) ==
  IF n >= 0 THEN SubSeq(text, 1, Min(n, Len(text)))
  ELSE SubSeq(text, 1, Max(Len(text) + n, 0))

IsWhite(c) == c \in {" ", "\t", "\n"}
IsAlpha(c) == c \notin {" ", "\t", "\n", CSI, "=", "[", "]", "(", ")", "|",
                        ",", ":", "-", ".", "1", "$", "*", "+"}

\* text.isspace()
IsSpace(text) == Len(text) > 0 /\ \A i \in 1..Len(text) : IsWhite(text[i])

\* text.find(c, i): 0-based index of the first c at or after i, -1 if none
RECURSIVE Find(_, _, _)
Find(text, c, i) ==
  IF i >= Len(text) THEN -1
  ELSE IF text[i + 1] = c THEN i
  ELSE Find(text, c, i + 1)

\* line.split()
RECURSIVE SplitFrom(_, _, _)
SplitFrom(line, i, word) ==
  IF i > Len(line) THEN (IF word = <<>> THEN <<>> ELSE <<word>>)
  ELSE IF IsWhite(line[i])
    THEN (IF word = <<>> THEN <<>> ELSE <<word>>) \o SplitFrom(line, i + 1, <<>>)
    ELSE SplitFrom(line, i + 1, Append(word, line[i]))
Split(line) == SplitFrom(line, 1, <<>>)

\* re.match('( *)', text).group(1)
RECURSIVE LeadingSpaces(_)
LeadingSpaces(text) ==
  IF text # <<>> /\ Head(text) = " "
  THEN <<" ">> \o LeadingSpaces(Tail(text)) ELSE <<>>

(***************************************************************************)
(* console_attr: control sequence length and display width with _csi set   *)
(* to CSI.  Every character of the model's alphabet is one column wide.     *)
(***************************************************************************)
RECURSIVE ControlLen(_, _)
ControlLen(buf, n) ==
  IF n >= Len(buf) THEN n
  ELSE IF IsAlpha(buf[n + 1]) THEN n + 1
  ELSE ControlLen(buf, n + 1)

GetControlSequenceLen(buf) ==
  IF buf = <<>> \/ Head(buf) # CSI THEN 0 ELSE ControlLen(buf, 0)

RECURSIVE WidthFrom(_, _)
WidthFrom(buf, i) ==
  IF i >= Len(buf) THEN 0
  ELSE IF buf[i + 1] = CSI
    THEN WidthFrom(buf, i + GetControlSequenceLen(From(buf, i)))
    ELSE 1 + WidthFrom(buf, i + 1)
DisplayWidth(buf) == WidthFrom(buf, 0)

(***************************************************************************)
(* renderer.Renderer: the blank-line flag.                                 *)
(***************************************************************************)
Blank(self) == [self EXCEPT !.blank = TRUE]
Content(self) == [self EXCEPT !.blank = FALSE]
HaveBlank(self) == self.blank

(***************************************************************************)
(* The state record the methods work on.                                   *)
(***************************************************************************)
Self ==
  [width |-> width, height |-> height, compact |-> compact, fill |-> fill,
   current_token_type |-> current_token_type,
   ignore_paragraph |-> ignore_paragraph, ignore_width |-> ignore_width,
   indent |-> indent, level |-> level, lines |-> lines, tokens |-> tokens,
   truncated |-> truncated, blank |-> blank, font |-> font, raised |-> raised]

Token(type, text) == [type |-> type, text |-> text]
None == <<>>
NoType == "None"

\* class Indent: __init__
NewIndent(isCompact) ==
  [indent |-> IF isCompact THEN 0 ELSE INDENT,
   hanging_indent |-> IF isCompact THEN 0 ELSE INDENT]

\* TokenRenderer.__init__
Construct(w, h, c) ==
  [width |-> w, height |-> h, compact |-> c, fill |-> 0,
   current_token_type |-> "Normal", ignore_paragraph |-> FALSE,
   ignore_width |-> FALSE, indent |-> <<NewIndent(c)>>, level |-> 0,
   lines |-> <<>>, tokens |-> <<>>, truncated |-> FALSE, blank |-> TRUE,
   font |-> {}, raised |-> "none"]

(***************************************************************************)
(* _UnFormat                                                               *)
(***************************************************************************)
\* UnFormatFrom stepping over the sentinel only, not the letter after it
RECURSIVE UnFormatSentinelOnly(_, _)
UnFormatSentinelOnly(text, i) ==
  IF i >= Len(text) THEN <<>>
  ELSE LET j == Find(text, CSI, i) IN
       IF j < 0 THEN From(text, i)
       ELSE Slice(text, i, j) \o UnFormatSentinelOnly(text, j + 1)

RECURSIVE UnFormatFrom(_, _)
UnFormatFrom(text, i) ==
  IF i >= Len(text) THEN <<>>
  ELSE LET j == Find(text, CSI, i) IN
       IF j < 0 THEN From(text, i)
       ELSE Slice(text, i, j) \o UnFormatFrom(text, j + 2)

UnFormat(text) ==
  IF Find(text, CSI, 0) < 0 THEN text ELSE UnFormatFrom(text, 0)

(***************************************************************************)
(* _Truncate: returns the state and the (possibly altered) last line.      *)
(***************************************************************************)
MarkerString == <<".", ".", ".">>

\* the loop of the last branch: cut the token list so the marker fits
RECURSIVE TruncateTokens(_, _, _, _)
TruncateTokens(toks, k, available, marker_width) ==
  IF k > Len(toks) THEN <<>>
  ELSE LET word == toks[k].text
           avail == available - DisplayWidth(word)
       IN IF avail <= marker_width
          THEN LET trim == marker_width - avail
               IN <<Token(toks[k].type,
                          IF trim # 0 THEN Prefix(word, 0 - trim) ELSE word)>>
          ELSE <<toks[k]>> \o TruncateTokens(toks, k + 1, avail, marker_width)

\* the branches that make room for the marker when Fill gave an overflow hint
MakeRoom(self, toks, overflow) ==
  LET marker_width == Len(MarkerString) IN
  IF toks # <<>> /\ overflow # None
  THEN LET word == overflow[1]
           available == overflow[2]
       IN IF marker_width = available THEN toks
          ELSE IF marker_width + 1 <= available
            THEN Append(toks,
                   Token(self.current_token_type,
                         <<" ">> \o Prefix(UnFormat(word),
                                           available - marker_width - 1)))
            ELSE TruncateTokens(toks, 1, self.width, marker_width)
  ELSE toks

\* Truncate that forgets to set the truncated flag
TruncateFlagNotSet(self, toks, overflow) ==
  [self |-> self,
   tokens |-> Append(MakeRoom(self, toks, overflow),
                     Token("Truncated", MarkerString))]

Truncate(self, toks, overflow) ==
  [self |-> [self EXCEPT !.truncated = TRUE],
   tokens |-> Append(MakeRoom(self, toks, overflow),
                     Token("Truncated", MarkerString))]

(***************************************************************************)
(* _NewLine                                                                *)
(***************************************************************************)
\* the "Delete trailing space" loop on one line
RECURSIVE DeleteTrailingSpace(_)
DeleteTrailingSpace(line) ==
  IF line # <<>> /\ IsSpace(line[Len(line)].text)
  THEN DeleteTrailingSpace(SubSeq(line, 1, Len(line) - 1))
  ELSE line

\* Rejected without the test of the truncated flag
RejectedBlankOnly(self, toks) == toks = <<>> /\ self.compact

\* the line is dropped: output was truncated, or a blank line in compact mode
Rejected(self, toks) == self.truncated \/ (toks = <<>> /\ self.compact)

\* the line reaches the output height
AtHeight(self, toks) ==
  self.height # 0
  /\ Len(self.lines) + (IF toks # <<>> THEN 1 ELSE 0) >= self.height

\* AppendLine putting the new line first
PrependLine(ls, toks) == <<toks>> \o ls

\* self._lines.append(tokens)
AppendLine(ls, toks) == Append(ls, toks)

\* DeleteLastTrailingSpace leaving the last line as it is
KeepLastTrailingSpace(self) == self

\* the "Delete trailing space" step on the last line of the output
DeleteLastTrailingSpace(self) ==
  IF Len(self.lines) > 0
  THEN [self EXCEPT !.lines[Len(self.lines)] =
                      DeleteTrailingSpace(self.lines[Len(self.lines)])]
  ELSE self

\* t is the state and the line _Truncate returned, or the state and the
\* line as they were
LineAppended(t) == [t.self EXCEPT !.lines = AppendLine(t.self.lines, t.tokens)]

\* the height test and the append, for the line toks
TruncateOrAppend(self, toks, overflow) ==
  LineAppended(IF AtHeight(self, toks) THEN Truncate(self, toks, overflow)
               ELSE [self |-> self, tokens |-> toks])

NewLine(self, overflow) ==
  IF Rejected(self, self.tokens) THEN [self EXCEPT !.tokens = <<>>]
  ELSE TruncateOrAppend(DeleteLastTrailingSpace([self EXCEPT !.tokens = <<>>]),
                        self.tokens, overflow)

(***************************************************************************)
(* _MergeOrAddToken, _AddToken                                             *)
(***************************************************************************)
\* self._tokens.append(token)
TokenAppended(self, token) == [self EXCEPT !.tokens = Append(self.tokens, token)]

\* _MergeOrAddToken treating every token as it treats an empty section header
MergeOrAddTokenReplace(self, text, token_type) ==
  LET n == Len(self.tokens) IN
  IF text = <<>> THEN self
  ELSE IF n = 0 \/ self.tokens[n].type # token_type
    THEN [self EXCEPT !.tokens = Append(self.tokens, Token(token_type, text))]
  ELSE [self EXCEPT !.tokens[n] = Token(token_type, text)]

\* _MergeOrAddToken that never merges: every text opens a new token
MergeOrAddTokenNoMerge(self, text, token_type) ==
  IF text = <<>> THEN self
  ELSE [self EXCEPT !.tokens = Append(self.tokens, Token(token_type, text))]

MergeOrAddToken(self, text, token_type) ==
  LET n == Len(self.tokens) IN
  IF text = <<>> THEN self
  ELSE IF n = 0 \/ self.tokens[n].type # token_type
    THEN TokenAppended(self, Token(token_type, text))
  ELSE IF self.tokens[n].type = "Section"
    THEN IF LeadingSpaces(self.tokens[n].text) = LeadingSpaces(text)
         THEN [self EXCEPT !.tokens[n] = Token(token_type, text)]
         ELSE TokenAppended(NewLine(self, None), Token(token_type, text))
  ELSE [self EXCEPT !.tokens[n] = Token(token_type, self.tokens[n].text \o text)]

\* the while loop of _AddToken over the embellishment markers of text
\* self._current_token_type = token_type
TypeSet(self, token_type) == [self EXCEPT !.current_token_type = token_type]

RECURSIVE AddTokenFrom(_, _, _, _)
AddTokenFrom(self, text, token_type, i) ==
  LET j == Find(text, CSI, i) IN
  IF j < 0 THEN MergeOrAddToken(self, From(text, i), token_type)
  ELSE AddTokenFrom(
         TypeSet(MergeOrAddToken(self, Slice(text, i, j), token_type),
                 EMBELLISHMENTS[text[j + 2]]),
         text, EMBELLISHMENTS[text[j + 2]], j + 2)

\* the two ways of _AddToken, token_type resolved
AddTokenTyped(self, text, token_type) ==
  IF Find(text, CSI, 0) < 0 THEN MergeOrAddToken(self, text, token_type)
  ELSE AddTokenFrom(self, text, token_type, 0)

\* token_type is NoType (Python's None) or a token type name
AddToken(self, text, token_type) ==
  AddTokenTyped(IF text # <<>> /\ ~IsSpace(text)
                THEN [self EXCEPT !.ignore_paragraph = FALSE] ELSE self,
                text,
                IF token_type = NoType THEN self.current_token_type
                ELSE token_type)

(***************************************************************************)
(* _AddDefinition, _Flush                                                  *)
(***************************************************************************)
\* text.split('='): the second part ends at the next "="
SplitAtEveryEquals(t) ==
  LET eq == Find(t, "=", 0)
      nxt == IF eq < 0 THEN -1 ELSE Find(t, "=", eq + 1)
  IN IF eq < 0 THEN <<t>>
     ELSE <<Slice(t, 0, eq),
            IF nxt < 0 THEN From(t, eq + 1) ELSE Slice(t, eq + 1, nxt)>>

\* text.split('=', 1)
SplitAtEquals(t) ==
  LET eq == Find(t, "=", 0)
  IN IF eq < 0 THEN <<t>> ELSE <<Slice(t, 0, eq), From(t, eq + 1)>>

\* the "=" and the value, when the definition has them
AddValue(self, parts) ==
  IF Len(parts) > 1
  THEN AddToken(AddToken(self, <<"=">>, "Normal"), parts[2], "Value")
  ELSE self

\* the definition split into parts
AddParts(self, parts) ==
  NewLine(AddValue(AddToken(self, parts[1], "Definition"), parts), None)

AddDefinition(self, text) == AddParts(self, SplitAtEquals(UnFormat(text)))

\* self._fill = n
FillSet(self, n) == [self EXCEPT !.fill = n]

Flush(self) ==
  IF self.fill # 0
  THEN FillSet(Content(NewLine([self EXCEPT !.ignore_width = FALSE], None)), 0)
  ELSE [self EXCEPT !.ignore_width = FALSE]

(***************************************************************************)
(* _SetIndent.  hanging_indent is None (<<>>) or <<n>>.                    *)
(***************************************************************************)
\* LevelIndent taking the increment alone, not the parent's indent plus it
LevelIndentFromZero(prev, cur, ind) ==
  IF cur > 1 /\ prev.hanging_indent = prev.indent THEN ind + 1 ELSE ind

\* the indent of level cur, entered from the level whose entry is prev
LevelIndent(prev, cur, ind) ==
  IF cur > 1 /\ prev.hanging_indent = prev.indent
  THEN prev.indent + ind + 1 ELSE prev.indent + ind

\* NextLevel stepping over the intervening level
NextLevelSkipping(self) == self.level + 2

\* self._level += 1
NextLevel(self) == self.level + 1

RECURSIVE SetIndentUp(_, _, _, _)
SetIndentUp(self, lvl, ind, hanging_indent) ==
  IF ~(self.level < lvl) THEN self
  ELSE
    LET prev_level == self.level
        cur == NextLevel(self)
        stack == IF cur >= Len(self.indent)
                 THEN Append(self.indent, NewIndent(TRUE)) ELSE self.indent
        prev == stack[prev_level + 1]
        bumped == LevelIndent(prev, cur, ind)
        hang == IF hanging_indent # None
                THEN bumped - hanging_indent[1] ELSE bumped
    IN SetIndentUp(
         [self EXCEPT !.level = cur,
                      !.indent = [stack EXCEPT ![cur + 1] =
                                    [indent |-> bumped, hanging_indent |-> hang]]],
         lvl, ind, hanging_indent)

\* SetIndent that, on a level already entered, adds the hanging indent to the
\* indent instead of recomputing the indent from the level's hanging indent
SetIndentAccumulating(self, lvl, ind, hanging_indent) ==
  IF self.level < lvl THEN SetIndentUp(self, lvl, ind, hanging_indent)
  ELSE
    LET s1 == [self EXCEPT !.level = lvl]
    IN IF hanging_indent # None
       THEN [s1 EXCEPT !.indent[lvl + 1].indent =
                          s1.indent[lvl + 1].indent + hanging_indent[1]]
       ELSE s1

SetIndent(self, lvl, ind, hanging_indent) ==
  IF self.level < lvl THEN SetIndentUp(self, lvl, ind, hanging_indent)
  ELSE
    LET s1 == [self EXCEPT !.level = lvl]
    IN IF hanging_indent # None
       THEN [s1 EXCEPT !.indent[lvl + 1].indent =
                          s1.indent[lvl + 1].hanging_indent + hanging_indent[1]]
       ELSE s1

(***************************************************************************)
(* Example, Fill, Font, Finish                                             *)
(***************************************************************************)
\* the rest of Example once _fill is set
ExampleLine(self, line) ==
  FillSet(Content(NewLine(AddToken(self, Spaces(self.fill) \o line, "Normal"),
                          None)), 0)

Example(self, line) ==
  ExampleLine(FillSet(self, self.indent[self.level + 1].indent + INDENT), line)

\* MustWrap off by one: a word that exactly meets the width stays on the line
MustWrapLate(self, w, available) == (w + 1) > available /\ ~self.ignore_width

\* MustWrap with the ignore-width flag read the wrong way round
MustWrapFlagInverted(self, w, available) ==
  (w + 1) >= available /\ self.ignore_width

\* the word does not fit on the line in progress
MustWrap(self, w, available) == (w + 1) >= available /\ ~self.ignore_width

\* the body of Fill's loop for one word
\* self._AddToken(' ' * self._fill)
AddFill(self) == AddToken(self, Spaces(self.fill), NoType)

\* a word at column 0: the indent of a new paragraph line
StartLine(self) ==
  IF self.fill = 0
  THEN AddFill(IF self.level # 0 \/ ~self.compact
               THEN FillSet(self, self.indent[self.level + 1].indent - 1)
               ELSE [self EXCEPT !.level = 0])
  ELSE self

\* after the line in progress was finalized: the indent of the next line
StartNextLine(self) == AddFill(FillSet(self, self.indent[self.level + 1].indent))

\* the word stays on the line in progress: the separating space
AddSpace(self) ==
  IF self.fill # 0
  THEN AddToken([self EXCEPT !.fill = self.fill + 1, !.ignore_width = FALSE],
                <<" ">>, NoType)
  ELSE [self EXCEPT !.ignore_width = FALSE]

\* the wrap test and its two branches
PlaceWord(self, word) ==
  IF MustWrap(self, DisplayWidth(word), self.width - self.fill)
  THEN StartNextLine(NewLine(self, <<word, self.width - self.fill>>))
  ELSE AddSpace(self)

\* self._fill += width; self._AddToken(word)
AddWord(self, word) ==
  AddToken(FillSet(self, self.fill + DisplayWidth(word)), word, NoType)

FillWord(self, word) == AddWord(PlaceWord(StartLine(self), word), word)

RECURSIVE FillWords(_, _, _)
FillWords(self, words, k) ==
  IF k > Len(words) THEN self
  ELSE FillWords(FillWord(self, words[k]), words, k + 1)

Fill(self, line) == FillWords(Blank(self), Split(line), 1)

\* attr is None (<<>>) or <<a>> with a one of "BOLD", "ITALIC", "CODE"
FontMask(self, attr) ==
  IF attr = None THEN {}
  ELSE (self.font \ {attr[1]}) \cup ({attr[1]} \ self.font)

\* Embellishment testing bold before code
EmbellishmentBoldFirst(f) ==
  IF f = {"BOLD", "ITALIC"} THEN "Z"
  ELSE IF "BOLD" \in f THEN "B"
  ELSE IF "CODE" \in f THEN "C"
  ELSE IF f = {"ITALIC"} THEN "I"
  ELSE "N"

Embellishment(f) ==
  IF "CODE" \in f THEN "C"
  ELSE IF f = {"BOLD", "ITALIC"} THEN "Z"
  ELSE IF f = {"BOLD"} THEN "B"
  ELSE IF f = {"ITALIC"} THEN "I"
  ELSE "N"

Font(self, attr) == [self EXCEPT !.font = FontMask(self, attr)]

\* the value Font returns: the control sequence of the font now in force
FontSequence(self) ==
  <<CSI, Embellishment(self.font \cap {"BOLD", "CODE", "ITALIC"})>>

Finish(self) == Font(Flush(self), None)

(***************************************************************************)
(* Line, Heading, TableLine                                                *)
(***************************************************************************)
\* the blank line, unless the output already ends in one
BlankLine(self) ==
  IF ~HaveBlank(self) THEN NewLine(Blank(self), None) ELSE self

Line(self) == IF self.ignore_paragraph THEN self ELSE BlankLine(Flush(self))

EndsWith(text, suffix) ==
  Len(text) >= Len(suffix)
  /\ SubSeq(text, Len(text) - Len(suffix) + 1, Len(text)) = suffix

\* in compact mode: ignore paragraphs, count n more columns
CompactCounted(self, n) ==
  IF self.compact
  THEN [self EXCEPT !.ignore_paragraph = TRUE, !.fill = self.fill + n]
  ELSE self

\* the indent of a heading below level 2
HeadingIndent(self, lvl) ==
  IF lvl > 2
  THEN CompactCounted(AddToken(self, Spaces(2 * (lvl - 2)), NoType),
                      2 * (lvl - 2))
  ELSE self

\* the heading ends its line unless the mode is compact
HeadingEnd(self, heading) ==
  IF self.compact THEN CompactCounted(self, DisplayWidth(heading))
  ELSE NewLine(self, None)

\* self.Blank(); self._level = 0
HeadingDone(self) == [Blank(self) EXCEPT !.level = 0]

Heading(self, lvl, heading) ==
  IF lvl = 1 /\ EndsWith(heading, <<"(", "1", ")">>) THEN self
  ELSE HeadingDone(
         HeadingEnd(
           AddToken(HeadingIndent(Font(Line(Flush(self)), None), lvl),
                    heading, "Section"),
           heading))

TableLine(self, line, ind) ==
  NewLine(AddToken(self, Spaces(ind) \o line, NoType), None)

(***************************************************************************)
(* List                                                                    *)
(***************************************************************************)
\* console_attr.GetBullets() of the ASCII console
Bullets == <<"o", "*", "+", "-">>

\* the hanging indent of a list item, followed by text
AddHanging(self, lvl, text) ==
  AddToken(self, Spaces(self.indent[lvl + 1].hanging_indent) \o text, NoType)

\* BulletDone that leaves the ignore-width flag as it was
BulletDoneWidthKept(self, lvl) ==
  [self EXCEPT !.fill = self.indent[lvl + 1].indent + 1]

\* the end of a bullet item: the first word ignores the width
BulletDone(self, lvl) ==
  [self EXCEPT !.fill = self.indent[lvl + 1].indent + 1, !.ignore_width = TRUE]

\* the branches of List after the flush
ListItem(self, lvl, definition, end) ==
  IF lvl = 0 THEN [self EXCEPT !.level = lvl]
  ELSE IF end THEN SetIndent(self, lvl, 0, None)
  ELSE IF definition # None
    THEN IF definition[1] # <<>>
         THEN AddDefinition(AddHanging(SetIndent(self, lvl, 4, <<3>>), lvl, <<>>),
                            definition[1])
         ELSE Line(SetIndent(self, lvl, 1, <<0>>))
  ELSE BulletDone(
         AddHanging(SetIndent(self, lvl, IF lvl > 1 THEN 2 ELSE 4, <<2>>), lvl,
                    <<Bullets[((lvl - 1) % Len(Bullets)) + 1]>>),
         lvl)

\* definition is None (<<>>) for a bullet item, otherwise <<text>>
List(self, lvl, definition, end) == ListItem(Flush(self), lvl, definition, end)

(***************************************************************************)
(* _SkipSpace, _SkipControlSequence, _SkipNest                             *)
(***************************************************************************)
RECURSIVE SkipSpace(_, _)
SkipSpace(line, index) ==
  IF index < Len(line) /\ line[index + 1] = " "
  THEN SkipSpace(line, index + 1) ELSE index

SkipControlSequence(line, index) ==
  LET n == GetControlSequenceLen(From(line, index))
  IN index + (IF n = 0 THEN 1 ELSE n)

RECURSIVE SkipNestFrom(_, _, _)
SkipNestFrom(line, index, nest) ==
  IF ~(index < Len(line)) THEN index
  ELSE LET c == line[index + 1]
           i1 == index + 1
       IN IF c \in {"[", "("} THEN SkipNestFrom(line, i1, nest + 1)
          ELSE IF c \in {")", "]"}
            THEN (IF nest - 1 <= 0 THEN i1 ELSE SkipNestFrom(line, i1, nest - 1))
          ELSE IF c = CSI
            THEN SkipNestFrom(line, SkipControlSequence(line, i1), nest)
          ELSE SkipNestFrom(line, i1, nest)

SkipNest(line, index) == SkipNestFrom(line, index, 0)

(***************************************************************************)
(* _SplitWideSynopsisGroup: returns the state and the running width.       *)
(***************************************************************************)
Delimiters == <<<<" ", "|", " ">>, <<" ", ":", " ">>, <<" ">>, <<",">>>>

\* 0-based index of the first occurrence of delimiter in group, -1 if none
RECURSIVE FindSub(_, _, _)
FindSub(group, delimiter, i) ==
  IF i + Len(delimiter) > Len(group) THEN -1
  ELSE IF SubSeq(group, i + 1, i + Len(delimiter)) = delimiter THEN i
  ELSE FindSub(group, delimiter, i + 1)

\* Partition that leaves the delimiter at the head of the remainder
PartitionKeepingDelimiter(group, delimiter) ==
  LET i == FindSub(group, delimiter, 0)
  IN IF i < 0 THEN <<group, <<>>>>
     ELSE <<Slice(group, 0, i), From(group, i)>>

\* group.partition(delimiter): <<part, remainder>>
Partition(group, delimiter) ==
  LET i == FindSub(group, delimiter, 0)
  IN IF i < 0 THEN <<group, <<>>>>
     ELSE <<Slice(group, 0, i), From(group, i + Len(delimiter))>>

\* a split after a comma keeps the comma on the line it ends
CommaKept(self, split, prev_delimiter) ==
  IF split /\ prev_delimiter = <<",">>
  THEN AddToken(self, prev_delimiter, NoType) ELSE self

\* the line break before a part that starts a continuation line
Continued(self, wrap, running_width) ==
  IF wrap THEN AddToken(NewLine(self, None), Spaces(running_width), NoType)
  ELSE self

\* one pass of the while loop: the for loop over the delimiters from the
\* d-th on, up to its break; returns the state and the loop's variables
RECURSIVE SplitPass(_, _, _, _, _, _)
SplitPass(self, group, ind, running_width, prev_delimiter, d) ==
  LET delimiter == Delimiters[d]
      p == Partition(group, delimiter)
      part == p[1]
      w == DisplayWidth(part)
      comma == <<",">>
      split == (running_width + Len(prev_delimiter) + w) >= self.width
               \/ (prev_delimiter # comma /\ delimiter = comma)
  IN IF split /\ delimiter # comma
        /\ (ind + SPLIT_INDENT + Len(prev_delimiter) + w) >= self.width
     THEN \* the next delimiter may produce a smaller first part
          SplitPass(self, group, ind, running_width, prev_delimiter, d + 1)
     ELSE
       LET pd == IF split /\ prev_delimiter = comma THEN <<" ">>
                 ELSE prev_delimiter
           wrap == split /\ running_width # ind
           rw == IF wrap THEN ind + SPLIT_INDENT ELSE running_width
       IN [self |-> AddToken(Continued(CommaKept(self, split, prev_delimiter),
                                       wrap, rw),
                             pd \o part, NoType),
           group |-> p[2], running_width |-> rw + Len(pd) + w,
           prev_delimiter |-> delimiter]

\* the while loop: passes until the group is empty
RECURSIVE SplitWide(_, _, _, _, _)
RECURSIVE SplitNext(_, _)
SplitWide(self, group, ind, running_width, prev_delimiter) ==
  IF group = <<>> THEN [self |-> self, running_width |-> running_width]
  ELSE SplitNext(SplitPass(self, group, ind, running_width, prev_delimiter, 1),
                 ind)

\* the loop goes on with the variables r that a pass left
SplitNext(r, ind) ==
  SplitWide(r.self, r.group, ind, r.running_width, r.prev_delimiter)

SplitWideSynopsisGroup(self, group, ind, running_width) ==
  SplitWide(self, group, ind, running_width, <<" ">>)

(***************************************************************************)
(* Synopsis                                                                *)
(***************************************************************************)
\* one iteration of the group extraction loop, at i < len(line): the loop's
\* variables after it, or the exception it raised
ScanStep(line, i, beg, groups) ==
  LET c == line[i + 1] IN
  IF c = " "
  THEN LET end == i
           j == SkipSpace(line, i)
       IN IF j <= Len(line) - 1 /\ line[j + 1] = "|"
          THEN IF j + 1 >= Len(line)
               THEN \* line[i + 1] is out of range
                    [i |-> j, beg |-> beg, groups |-> groups,
                     raised |-> "IndexError"]
               ELSE IF line[j + 2] = " "
                 THEN [i |-> SkipSpace(line, j + 1), beg |-> beg,
                       groups |-> groups, raised |-> "none"]
                 ELSE [i |-> j, beg |-> j,
                       groups |-> Append(groups, Slice(line, beg, end)),
                       raised |-> "none"]
          ELSE [i |-> j, beg |-> j,
                groups |-> Append(groups, Slice(line, beg, end)),
                raised |-> "none"]
  ELSE IF c \in {"[", "("}
    THEN [i |-> SkipNest(line, i), beg |-> beg, groups |-> groups,
          raised |-> "none"]
  ELSE IF c = CSI
    THEN [i |-> SkipControlSequence(line, i), beg |-> beg, groups |-> groups,
          raised |-> "none"]
  ELSE [i |-> i + 1, beg |-> beg, groups |-> groups, raised |-> "none"]

\* the group extraction loop: [groups, beg, raised]
RECURSIVE SynopsisScan(_, _, _, _)
RECURSIVE ScanNext(_, _)
SynopsisScan(line, i, beg, groups) ==
  IF ~(i < Len(line)) THEN [groups |-> groups, beg |-> beg, raised |-> "none"]
  ELSE ScanNext(line, ScanStep(line, i, beg, groups))

\* the loop goes on with the variables r that an iteration left
ScanNext(line, r) ==
  IF r.raised # "none"
  THEN [groups |-> r.groups, beg |-> r.beg, raised |-> r.raised]
  ELSE SynopsisScan(line, r.i, r.beg, r.groups)

SynopsisGroups(line) ==
  LET i == SkipSpace(line, 0)
      r == SynopsisScan(line, i, i, <<>>)
  IN [raised |-> r.raised,
      groups |-> IF r.beg < Len(line)
                 THEN Append(r.groups, From(line, r.beg)) ELSE r.groups]

\* NoRoom off by one: a group that just fits is taken not to fit
NoRoomTight(self, at, w) == (at + w + 1) >= self.width

\* ' ' + group does not fit at column at
NoRoom(self, at, w) == (at + w) >= self.width

\* self._AddToken(' ' + group) at column at: the state and the running width
GroupAdded(self, group, at) ==
  [self |-> AddToken(self, <<" ">> \o group, NoType),
   running_width |-> at + DisplayWidth(group) + 1]

\* a group at the start of a continuation line: whole if it fits, else split
GroupOnNewLine(self, group, ind) ==
  IF NoRoom(self, ind, DisplayWidth(group) + 1)
  THEN SplitWideSynopsisGroup(self, group, ind, ind)
  ELSE GroupAdded(self, group, ind)

\* the body of the output loop for one group
SynopsisGroup(self, group, ind, running_width) ==
  IF NoRoom(self, running_width, DisplayWidth(group) + 1)
  THEN GroupOnNewLine(AddToken(NewLine(self, None), Spaces(ind), NoType),
                      group, ind)
  ELSE GroupAdded(self, group, running_width)

\* the output loop over the groups
RECURSIVE SynopsisOut(_, _, _, _, _)
SynopsisOut(self, groups, k, ind, running_width) ==
  IF k > Len(groups) THEN self
  ELSE LET r == SynopsisGroup(self, groups[k], ind, running_width)
       IN SynopsisOut(r.self, groups, k + 1, ind, r.running_width)

Synopsis(self, line) ==
  LET g == SynopsisGroups(line) IN
  IF g.raised # "none" THEN [self EXCEPT !.raised = g.raised]
  ELSE
    LET ind == self.indent[1].indent - 1
        s1 == AddToken(self, Spaces(ind), NoType)
        s2 == SynopsisOut(s1, g.groups, 1, ind + INDENT, ind)
    IN NewLine(NewLine(s2, None), None)

(***************************************************************************)
(* The driver's inputs.                                                    *)
(***************************************************************************)
MaxEvents == 2
Widths == {3, 9, 20}
Heights == {0, 1, 2}

OneTwoThree == <<"o", "n", "e", " ", "t", "w", "o", " ", "t", "h", "r", "e", "e">>
LongWord == <<"a", "b", "c", "d", "e", "f", "g", "h", "i", "j", " ", "k", "l">>
Styled == <<"a", "b", " ", CSI, "B", "c", "d", CSI, "N", " ", "e", "f">>
SixTwo == <<"a", "b", "c", "d", "e", "f", " ", "g", "h">>
\* a word of no width: the control sequence Font returns, on its own
BoldOn == <<CSI, "B">>
FlagValue == <<"-", "-", "f", "l", "a", "g", "=", "V", "A", "L", "U", "E">>
KeyOnly == <<"-", "-", "x">>
TwoEquals == <<"k", "=", "v", "=", "w">>
Name == <<"N", "A", "M", "E">>
ManPage == <<"c", "m", "d", "(", "1", ")">>
Code == <<"$", " ", "r", "u", "n", " ", "i", "t">>
Row == <<"a", " ", " ", "b">>
Pipe == <<"a", " ", "|">>
Unbalanced == <<"a", " ", "[", "b", " ", "c">>

\* synopsis lines, given as their top-level groups
GCmd == <<"c", "m", "d">>
GOptA == <<"[", "-", "-", "a", "]">>
GOptB == <<"[", "-", "-", "b", "]">>
GAlt == <<"a", " ", "|", " ", "b">>
GNest == <<"(", "x", " ", "[", "y", " ", "z", "]", ")">>
GWide == <<"[", "-", "-", "a", "a", "=", "A", ",", "-", "-", "b", "b", " ", "|",
           " ", "-", "-", "c", "c", "]">>
GEdge == <<"[", "-", "-", "a", "a", "=", "A", " ", "|", " ", "-", "-", "b", "b",
           "]">>
GTrail == <<"-", "-", "a", "a", "=", "A", ",">>
SynopsisGroupLists ==
  {<<GCmd, GOptA, GOptB>>, <<GCmd, GAlt, GNest>>, <<GCmd, GOptB, GEdge>>,
   <<GCmd, GWide>>, <<GCmd, GTrail>>}

RECURSIVE JoinGroups(_)
JoinGroups(groups) ==
  IF groups = <<>> THEN <<>>
  ELSE IF Len(groups) = 1 THEN groups[1]
  ELSE groups[1] \o <<" ">> \o JoinGroups(Tail(groups))

FillLines == {OneTwoThree, LongWord, Styled, SixTwo, BoldOn}
HeadingArgs == {<<1, ManPage>>, <<2, Name>>, <<3, Name>>}
ListEndLevels == {1, 2}
ListBulletLevels == {1, 2}
DefinitionArgs ==
  {<<1, FlagValue>>, <<2, FlagValue>>, <<1, KeyOnly>>, <<1, TwoEquals>>,
   <<1, <<>>>>}
ExampleLines == {Code}
SynopsisLines ==
  {JoinGroups(g) : g \in SynopsisGroupLists} \cup {Pipe, Unbalanced}
TableArgs == {<<Row, 2>>, <<<<>>, 0>>}
FontAttrs == {None, <<"BOLD">>, <<"ITALIC">>, <<"CODE">>}

(***************************************************************************)
(* The session: construction, then one action per driver call.             *)
(***************************************************************************)
Event(op, arg) == [op |-> op, arg |-> arg]

\* no loop is in progress
NoFrame == [loop |-> "none"]

Start(s) ==
  /\ width = s.width /\ height = s.height /\ compact = s.compact
  /\ fill = s.fill /\ current_token_type = s.current_token_type
  /\ ignore_paragraph = s.ignore_paragraph /\ ignore_width = s.ignore_width
  /\ indent = s.indent /\ level = s.level /\ lines = s.lines
  /\ tokens = s.tokens /\ truncated = s.truncated /\ blank = s.blank
  /\ font = s.font /\ raised = s.raised
  /\ last = Event("Init", <<>>) /\ returned = None /\ nevents = 0
  /\ frame = NoFrame

Init == \E w \in Widths, h \in Heights, c \in BOOLEAN : Start(Construct(w, h, c))

\* the driver can make a call: no exception has ended the session, Finish has
\* not returned
Open == raised = "none" /\ last.op # "Finish" /\ nevents < MaxEvents

\* the step ev leaves the renderer in state s, the value ret returned and the
\* loop variables fr
Moves(s, ev, ret, fr) ==
  /\ width' = s.width /\ height' = s.height /\ compact' = s.compact
  /\ fill' = s.fill /\ current_token_type' = s.current_token_type
  /\ ignore_paragraph' = s.ignore_paragraph /\ ignore_width' = s.ignore_width
  /\ indent' = s.indent /\ level' = s.level /\ lines' = s.lines
  /\ tokens' = s.tokens /\ truncated' = s.truncated /\ blank' = s.blank
  /\ font' = s.font /\ raised' = s.raised
  /\ last' = ev /\ returned' = ret /\ nevents' = nevents + 1
  /\ frame' = fr

\* the call ev leaves the renderer in state s and returns ret
Returns(s, ev, ret) == Moves(s, ev, ret, NoFrame)

\* a call whose return value is None, or the output itself (Finish)
Becomes(s, ev) == Returns(s, ev, None)

\* Font(attr): the new state and the control sequence returned
FontReturns(s, ev) == Returns(s, ev, FontSequence(s))

HeadingEv ==
  /\ Open
  /\ \E a \in HeadingArgs : Becomes(Heading(Self, a[1], a[2]), Event("Heading", a))

LineEv == Open /\ Becomes(Line(Self), Event("Line", <<>>))

FillEv ==
  /\ Open
  /\ \E line \in FillLines : Becomes(Fill(Self, line), Event("Fill", <<line>>))

ListResetEv ==
  /\ Open
  /\ Becomes(List(Self, 0, None, FALSE), Event("List", <<0, None, FALSE>>))

ListEndEv ==
  /\ Open
  /\ \E lvl \in ListEndLevels :
       Becomes(List(Self, lvl, None, TRUE), Event("List", <<lvl, None, TRUE>>))

ListDefinitionEv ==
  /\ Open
  /\ \E a \in DefinitionArgs :
       Becomes(List(Self, a[1], <<a[2]>>, FALSE),
               Event("List", <<a[1], <<a[2]>>, FALSE>>))

ListBulletEv ==
  /\ Open
  /\ \E lvl \in ListBulletLevels :
       Becomes(List(Self, lvl, None, FALSE), Event("List", <<lvl, None, FALSE>>))

ExampleEv ==
  /\ Open
  /\ \E line \in ExampleLines :
       Becomes(Example(Self, line), Event("Example", <<line>>))

SynopsisEv ==
  /\ Open
  /\ \E line \in SynopsisLines :
       Becomes(Synopsis(Self, line), Event("Synopsis", <<line>>))

TableLineEv ==
  /\ Open
  /\ \E a \in TableArgs :
       Becomes(TableLine(Self, a[1], a[2]), Event("TableLine", a))

FontEv ==
  /\ Open
  /\ \E attr \in FontAttrs :
       FontReturns(Font(Self, attr), Event("Font", <<attr>>))

FinishEv == Open /\ Becomes(Finish(Self), Event("Finish", <<>>))

Next ==
  \/ HeadingEv \/ LineEv \/ FillEv \/ ListResetEv \/ ListEndEv
  \/ ListDefinitionEv \/ ListBulletEv \/ ExampleEv \/ SynopsisEv \/ TableLineEv \/ FontEv
  \/ FinishEv

Spec == Init /\ [][Next]_vars

(***************************************************************************)
(* The paragraph events alone: Fill, Line and Finish.                      *)
(***************************************************************************)
NextFill == FillEv \/ LineEv \/ FinishEv

SpecFill == Init /\ [][NextFill]_vars

(***************************************************************************)
(* The token/line buffer on its own: _AddToken and _NewLine called         *)
(* directly on a new renderer.                                             *)
(***************************************************************************)
TokenTypes ==
  {"Bold", "BoldItalic", "Code", "Definition", "Italic", "Normal", "Section",
   "Value"}
RunTexts == {<<"a", "b">>, <<" ", "c">>}

AddTokenEv ==
  /\ Open
  /\ \E text \in RunTexts, tt \in TokenTypes \cup {NoType} :
       Becomes(AddToken(Self, text, tt), Event("AddToken", <<text, tt>>))

NewLineEv == Open /\ Becomes(NewLine(Self, None), Event("NewLine", <<>>))

NextBuffer == AddTokenEv \/ NewLineEv

SpecBuffer == Init /\ [][NextBuffer]_vars

(***************************************************************************)
(* Font on its own: the attribute toggles of a longer run of calls.        *)
(***************************************************************************)
MaxToggles == 3

ToggleEv ==
  /\ nevents < MaxToggles
  /\ \E attr \in FontAttrs :
       FontReturns(Font(Self, attr), Event("Font", <<attr>>))

SpecFont == Init /\ [][ToggleEv]_vars

(***************************************************************************)
(* _UnFormat on its own: applied to any text over a small alphabet, and to *)
(* the control sequence Font returns followed by a plain text.             *)
(***************************************************************************)
MaxLen == 3
MarkerAlphabet == {CSI, "N", "a"}
MarkedTexts == UNION {[1..n -> MarkerAlphabet] : n \in 0..MaxLen}
PlainTexts == {t \in MarkedTexts : \A i \in 1..Len(t) : t[i] # CSI}
ToggleAttrs == {"BOLD", "ITALIC", "CODE"}

\* self._UnFormat(text)
UnFormatEv ==
  /\ Open
  /\ \E text \in MarkedTexts :
       Returns(Self, Event("UnFormat", <<text>>), UnFormat(text))

\* self._UnFormat(self.Font(attr) + text)
FontUnFormat(s, attr, text) ==
  Returns(s, Event("FontUnFormat", <<attr, text>>),
          UnFormat(FontSequence(s) \o text))

FontUnFormatEv ==
  /\ Open
  /\ \E attr \in ToggleAttrs, text \in PlainTexts :
       FontUnFormat(Font(Self, <<attr>>), attr, text)

(***************************************************************************)
(* _SetIndent on its own, over more levels than the list events reach.     *)
(***************************************************************************)
MaxLevel == 3
IndentSteps == {0, 2, 4}
HangingIndents == {None, <<0>>, <<3>>}

SetIndentEv ==
  /\ Open
  /\ \E lvl \in 1..MaxLevel, ind \in IndentSteps, h \in HangingIndents :
       Becomes(SetIndent(Self, lvl, ind, h), Event("SetIndent", <<lvl, ind, h>>))

SpecIndent == Init /\ [][SetIndentEv]_vars

NextMarkers == UnFormatEv \/ FontUnFormatEv

SpecMarkers == Init /\ [][NextMarkers]_vars

(***************************************************************************)
(* The list levels: a longer run of list items over three levels, among    *)
(* the calls that reset the level or read the indent stack.                *)
(***************************************************************************)
MaxItems == 3
ItemLevels == {1, 2, 3}
ItemDefinitions == {None, <<<<>>>>, <<KeyOnly>>}

\* List(0), List(level, end=True) and the three kinds of item
ListArgs ==
  {<<0, None, FALSE>>} \cup {<<lvl, None, TRUE>> : lvl \in ItemLevels}
    \cup {<<lvl, d, FALSE>> : lvl \in ItemLevels, d \in ItemDefinitions}

InitList == \E h \in Heights, c \in BOOLEAN : Start(Construct(20, h, c))

ItemsOpen == raised = "none" /\ nevents < MaxItems

ListEv ==
  /\ ItemsOpen
  /\ \E a \in ListArgs :
       Becomes(List(Self, a[1], a[2], a[3]), Event("List", a))

ItemHeadingEv ==
  ItemsOpen /\ Becomes(Heading(Self, 2, Name), Event("Heading", <<2, Name>>))

ItemFillEv ==
  ItemsOpen /\ Becomes(Fill(Self, OneTwoThree), Event("Fill", <<OneTwoThree>>))

ItemExampleEv ==
  ItemsOpen /\ Becomes(Example(Self, Code), Event("Example", <<Code>>))

ItemSynopsisEv ==
  ItemsOpen /\ Becomes(Synopsis(Self, GAlt), Event("Synopsis", <<GAlt>>))

NextList ==
  ListEv \/ ItemHeadingEv \/ ItemFillEv \/ ItemExampleEv \/ ItemSynopsisEv

SpecList == InitList /\ [][NextList]_vars

(***************************************************************************)
(* The loops of Synopsis, one iteration at a time: the group extraction    *)
(* loop over a line, and the loop of _SplitWideSynopsisGroup over a group  *)
(* that does not fit a continuation line.                                  *)
(***************************************************************************)
GColon == <<"a", " ", ":", " ", "b", "b", ",", "c">>
NestMarker == <<"a", " ", "[", "b", CSI>>
ScanLines == SynopsisLines \cup {NestMarker}
SplitGroups == {GAlt, GWide, GEdge, GTrail, GColon}

\* Synopsis(line) up to the loop: i = self._SkipSpace(line, 0); beg = i
ScanCallEv ==
  /\ last.op = "Init"
  /\ \E line \in ScanLines :
       Moves(Self, Event("Synopsis", <<line>>), None,
             [loop |-> "scan", line |-> line, i |-> SkipSpace(line, 0),
              beg |-> SkipSpace(line, 0), groups |-> <<>>])

\* the loop variables r of an iteration replace those of the frame, or the
\* exception ends the call
Scanned(self, fr, r) ==
  IF r.raised # "none"
  THEN Moves([self EXCEPT !.raised = r.raised], Event("raise", <<r.raised>>),
             None, NoFrame)
  ELSE Moves(self, Event("scan", <<r.i>>), None,
             [fr EXCEPT !.i = r.i, !.beg = r.beg, !.groups = r.groups])

\* one iteration of: while i < len(line)
ScanStepEv ==
  /\ frame.loop = "scan" /\ frame.i < Len(frame.line)
  /\ Scanned(Self, frame, ScanStep(frame.line, frame.i, frame.beg, frame.groups))

\* the loop ends: the last group is added
ScanDoneEv ==
  /\ frame.loop = "scan" /\ ~(frame.i < Len(frame.line))
  /\ Moves(Self, Event("groups", <<>>),
           IF frame.beg < Len(frame.line)
           THEN Append(frame.groups, From(frame.line, frame.beg))
           ELSE frame.groups,
           NoFrame)

\* the indent of a continuation line of Synopsis
SynopsisIndent(self) == self.indent[1].indent - 1 + INDENT

\* Synopsis calls _SplitWideSynopsisGroup(group, indent, running_width) at
\* the start of a continuation line that has no room for the group
SplitCall(self, group, ind) ==
  /\ NoRoom(self, ind, DisplayWidth(group) + 1)
  /\ Moves(AddToken(self, Spaces(ind), NoType),
           Event("_SplitWideSynopsisGroup", <<group, ind, ind>>), None,
           [loop |-> "split", group |-> group, ind |-> ind,
            running_width |-> ind, prev_delimiter |-> <<" ">>])

SplitCallEv ==
  /\ last.op = "Init"
  /\ \E group \in SplitGroups : SplitCall(Self, group, SynopsisIndent(Self))

\* the loop variables r of a pass replace those of the frame
Passed(fr, r) ==
  Moves(r.self, Event("pass", <<r.prev_delimiter>>), None,
        [fr EXCEPT !.group = r.group, !.running_width = r.running_width,
                   !.prev_delimiter = r.prev_delimiter])

\* one pass of: while group
SplitPassEv ==
  /\ frame.loop = "split" /\ frame.group # <<>>
  /\ Passed(frame, SplitPass(Self, frame.group, frame.ind, frame.running_width,
                             frame.prev_delimiter, 1))

\* return running_width
SplitReturnEv ==
  /\ frame.loop = "split" /\ frame.group = <<>>
  /\ Moves(Self, Event("return", <<>>), <<frame.running_width>>, NoFrame)

NextLoops ==
  \/ ScanCallEv \/ ScanStepEv \/ ScanDoneEv
  \/ SplitCallEv \/ SplitPassEv \/ SplitReturnEv

\* a step of a loop in progress (every step counts one in nevents)
LoopRuns == frame.loop # "none" /\ nevents' = nevents + 1

\* the interpreter runs a loop that has been entered: no iteration waits
SpecLoops == Init /\ [][NextLoops]_vars /\ WF_nevents(LoopRuns)

(***************************************************************************)
(* What the properties read off the output.                                *)
(***************************************************************************)
RECURSIVE LineText(_)
LineText(line) ==
  IF line = <<>> THEN <<>> ELSE Head(line).text \o LineText(Tail(line))

RECURSIVE LineWidth(_)
LineWidth(line) ==
  IF line = <<>> THEN 0
  ELSE DisplayWidth(Head(line).text) + LineWidth(Tail(line))

\* a line produced by truncation ends in the Truncated token
IsTruncationLine(line) == line # <<>> /\ line[Len(line)].type = "Truncated"

WordsOfLine(line) == Split(LineText(line))

\* positions <<i, j>> of the Truncated tokens of the output
TruncatedTokens ==
  {p \in UNION {{<<i, j>> : j \in 1..Len(lines[i])} : i \in 1..Len(lines)} :
     lines[p[1]][p[2]].type = "Truncated"}

IsPrefix(a, b) == Len(a) <= Len(b) /\ SubSeq(b, 1, Len(a)) = a

C2_TruncationPermanent == [][truncated => (truncated' /\ lines' = lines)]_vars

\* a Fill arrived after a TableLine had truncated the output
C2_Witness ==
  /\ truncated /\ last.op = "Fill" /\ nevents >= 2
  /\ Len(lines) = 1 /\ LineText(lines[1]) = Spaces(2) \o Row \o MarkerString

(***************************************************************************)
(* C3.  With height > 0 the output never holds more than height lines.     *)
(* The code does not count a blank line towards the height, so in          *)
(* non-compact mode a blank line can fill the last row and the truncated   *)
(* line is appended after it.                                              *)
(***************************************************************************)
C3_AtMostHeightLines == height > 0 => Len(lines) <= height

(***************************************************************************)
(* C4.  truncated is true exactly when the output holds a Truncated token; *)
(* then there is exactly one, its text is "...", and it is the last token  *)
(* of the last output line.                                                *)
(***************************************************************************)
C4_TruncatedMarker ==
  /\ truncated <=> TruncatedTokens # {}
  /\ truncated =>
       /\ lines # <<>> /\ lines[Len(lines)] # <<>>
       /\ TruncatedTokens = {<<Len(lines), Len(lines[Len(lines)])>>}
       /\ lines[Len(lines)][Len(lines[Len(lines)])].text = MarkerString

C4_Witness == truncated /\ Len(lines) = 2 /\ Len(lines[2]) >= 2

(***************************************************************************)
(* C5.  The output is append-only: across one event the number of lines    *)
(* does not decrease and every line but the last one of the output before  *)
(* the event is unchanged; the last one keeps its place and can only lose  *)
(* trailing tokens.                                                        *)
(***************************************************************************)
C5_AppendOnly ==
  [][/\ Len(lines') >= Len(lines)
     /\ \A i \in 1..(Len(lines) - 1) : lines'[i] = lines[i]
     /\ lines # <<>> => IsPrefix(lines'[Len(lines)], lines[Len(lines)])]_vars

C5_Witness == Len(lines) >= 3 /\ nevents >= 2 /\ lines[1] # lines[2]

(***************************************************************************)
(* C6.  As claimed: for every token type, Section included, adding text t1 *)
(* and then t2 with the same type to an empty buffer leaves one token      *)
(* whose text is t1 followed by t2.  For Section the second text replaces  *)
(* the first (same leading spaces) or starts a new line (different leading *)
(* spaces), so this fails (C6_MergeEveryType).  What holds (C6_Merge): the *)
(* statement for every token type other than Section.                      *)
(***************************************************************************)
\* the step adds text with the type of the buffer's only token
SecondAdd ==
  /\ last.op = "AddToken" /\ last'.op = "AddToken"
  /\ Len(tokens) = 1 /\ tokens[1].text = last.arg[1]
  /\ tokens[1].type = (IF last'.arg[2] = NoType THEN current_token_type
                       ELSE last'.arg[2])

Merged == tokens' = <<Token(tokens[1].type, tokens[1].text \o last'.arg[1])>>

C6_MergeEveryType == [][SecondAdd => Merged]_vars

\* C6 as amended: every token type other than Section
C6_Merge == [][(SecondAdd /\ tokens[1].type # "Section") => Merged]_vars

C6_Witness ==
  /\ last.op = "AddToken" /\ nevents = 2 /\ lines = <<>>
  /\ tokens = <<Token("Definition", <<"a", "b", " ", "c">>)>>

(***************************************************************************)
(* C7.  Fill never splits, drops or reorders words: when no truncation     *)
(* occurs, the words of the output (the lines in order, then the line in   *)
(* progress, each line split at white space) after a Fill are the words    *)
(* before it followed by the words of the input line in input order,       *)
(* embellishment markers stripped.                                         *)
(***************************************************************************)
RECURSIVE WordsOfLines(_)
WordsOfLines(ls) ==
  IF ls = <<>> THEN <<>> ELSE WordsOfLine(Head(ls)) \o WordsOfLines(Tail(ls))

OutputWords == WordsOfLines(lines) \o WordsOfLine(tokens)

\* the words of an input line as they are displayed; a word that is only
\* markers displays nothing
RECURSIVE Displayed(_)
Displayed(words) ==
  IF words = <<>> THEN <<>>
  ELSE (IF UnFormat(Head(words)) = <<>> THEN <<>> ELSE <<UnFormat(Head(words))>>)
       \o Displayed(Tail(words))

C7_FillKeepsWords ==
  [][(last'.op = "Fill" /\ ~truncated')
       => OutputWords' = OutputWords \o Displayed(Split(last'.arg[1]))]_vars

\* a Fill whose over-wide first word and second word went to different lines
C7_Witness ==
  /\ last.op = "Fill" /\ last.arg[1] = LongWord /\ ~truncated /\ width = 9
  /\ lines # <<>> /\ tokens # <<>>

(***************************************************************************)
(* C8.  Greedy wrap rule of Fill: a word is appended to the line in        *)
(* progress, after one separating space when the line is not at column 0,  *)
(* unless fill + 1 + width(word) >= width with the ignore-width flag       *)
(* unset; then the line in progress is finalized first and the word starts *)
(* a new line at the level's indent.  And a new compact session of width 9 *)
(* and unbounded height given Fill("one two three") and Finish returns     *)
(* exactly the two lines "one two" and "three".                            *)
(***************************************************************************)
\* the fill column a word is measured against: a line at column 0 is first
\* indented to one less than the level's indent
FillColumn(s) ==
  IF s.fill # 0 THEN s.fill
  ELSE IF s.level # 0 \/ ~s.compact THEN s.indent[s.level + 1].indent - 1
  ELSE 0

\* the claimed effect of one word of Fill, from the state pre to the state post
GreedyStep(pre, post, word) ==
  LET f == FillColumn(pre)
      w == DisplayWidth(word)
      ind == pre.indent[pre.level + 1].indent
      started == IF pre.fill = 0 THEN LineText(pre.tokens) \o Spaces(f)
                 ELSE LineText(pre.tokens)
  IN IF f + 1 + w >= pre.width /\ ~pre.ignore_width
     THEN /\ LineText(post.tokens) = Spaces(ind) \o UnFormat(word)
          /\ post.fill = ind + w
          /\ (~pre.truncated /\ ~(started = <<>> /\ pre.compact))
               => Len(post.lines) = Len(pre.lines) + 1
     ELSE /\ post.lines = pre.lines
          /\ LineText(post.tokens) =
               started \o (IF f # 0 THEN <<" ">> ELSE <<>>) \o UnFormat(word)
          /\ post.fill = f + (IF f # 0 THEN 1 ELSE 0) + w

OneTwoThreeAtNine ==
  (/\ last.op = "Fill" /\ last.arg[1] = OneTwoThree /\ nevents = 1
   /\ compact /\ width = 9 /\ height = 0)
    => LET out == Finish(Self).lines
       IN /\ Len(out) = 2
          /\ LineText(out[1]) = <<"o", "n", "e", " ", "t", "w", "o">>
          /\ LineText(out[2]) = <<"t", "h", "r", "e", "e">>

\* every word of words from the k-th on is placed by the rule, starting in pre
RECURSIVE GreedyFrom(_, _, _)
GreedyFrom(pre, words, k) ==
  \/ k > Len(words)
  \/ LET post == FillWord(pre, words[k])
     IN GreedyStep(pre, post, words[k]) /\ GreedyFrom(post, words, k + 1)

C8_GreedyWrap ==
  [][/\ last'.op = "Fill" => GreedyFrom(Blank(Self), Split(last'.arg[1]), 1)
     /\ OneTwoThreeAtNine']_vars

C8_Witness ==
  /\ last.op = "Fill" /\ last.arg[1] = OneTwoThree /\ nevents = 1
  /\ compact /\ width = 9 /\ height = 0
  /\ Len(lines) = 1 /\ LineText(tokens) = <<"t", "h", "r", "e", "e">>

(***************************************************************************)
(* C9.  As claimed: a definition list item List(level, "K=V") finalizes    *)
(* one line whose tokens are exactly Definition:K, Normal:"=", Value:V.    *)
(* The line starts with the hanging indent, a token of spaces of its own,  *)
(* so this fails (C9_ThreeTokens).  What holds (C9_DefinitionLine): when   *)
(* no truncation occurs, a definition item at level >= 1 flushes the line  *)
(* in progress and finalizes exactly one more line, whose tokens end with  *)
(* exactly Definition:K, Normal:"=", Value:V, split at the first "=" only  *)
(* (with no "=", the single Definition token), preceded by one token of    *)
(* hanging-indent spaces (none when the hanging indent is 0).  Tokens that *)
(* are in the line buffer at fill column 0 when List is called are not     *)
(* flushed: they lead that line, before the hanging indent.                *)
(***************************************************************************)
IsDefinitionItem(ev) ==
  ev.op = "List" /\ ev.arg[1] >= 1 /\ ~ev.arg[3]
  /\ ev.arg[2] # None /\ ev.arg[2][1] # <<>>

\* the first "=" of text, 0 if there is none
RECURSIVE FirstEquals(_, _)
FirstEquals(text, i) ==
  IF i > Len(text) THEN 0
  ELSE IF text[i] = "=" THEN i ELSE FirstEquals(text, i + 1)

\* the tokens claimed for the definition text
DefinitionTokens(text) ==
  LET e == FirstEquals(text, 1) IN
  IF e = 0 THEN <<Token("Definition", text)>>
  ELSE <<Token("Definition", SubSeq(text, 1, e - 1)), Token("Normal", <<"=">>),
         Token("Value", SubSeq(text, e + 1, Len(text)))>>

C9_ThreeTokens ==
  (IsDefinitionItem(last) /\ ~truncated)
    => /\ lines # <<>>
       /\ lines[Len(lines)] = DefinitionTokens(last.arg[2][1])

\* the tokens _Flush leaves in the line buffer: those held at fill column 0
Unflushed == IF fill = 0 THEN tokens ELSE <<>>

\* line ends with the tokens tail; what precedes them reads as text
EndsWithTokens(line, text, tail) ==
  /\ Len(line) >= Len(tail)
  /\ SubSeq(line, Len(line) - Len(tail) + 1, Len(line)) = tail
  /\ LineText(SubSeq(line, 1, Len(line) - Len(tail))) = text

\* C9 as amended: the hanging indent, then the three tokens
C9_DefinitionLine ==
  [][(IsDefinitionItem(last') /\ ~truncated') =>
       LET hang == indent'[last'.arg[1] + 1].hanging_indent
           flushed == IF fill # 0 /\ ~(tokens = <<>> /\ compact) THEN 1 ELSE 0
       IN /\ Len(lines') = Len(lines) + flushed + 1
          /\ tokens' = <<>>
          /\ EndsWithTokens(lines'[Len(lines')],
                            LineText(Unflushed) \o Spaces(hang),
                            DefinitionTokens(last'.arg[2][1]))
          /\ Unflushed = <<>> =>
               lines'[Len(lines')] =
                 (IF hang > 0 THEN <<Token(current_token_type', Spaces(hang))>>
                  ELSE <<>>) \o DefinitionTokens(last'.arg[2][1])]_vars

C9_Witness ==
  /\ IsDefinitionItem(last) /\ last.arg[2][1] = TwoEquals /\ ~truncated
  /\ Len(lines[Len(lines)]) = 4
  /\ lines[Len(lines)][4] = Token("Value", <<"v", "=", "w">>)

(***************************************************************************)
(* C10.  Synopsis keeps groups atomic: when no truncation occurs, every    *)
(* top-level group of the line that fits on a new continuation line        *)
(* (continuation indent + 1 + width(group) < width) stands whole on one of *)
(* the lines the call finalizes.  And Synopsis("cmd [--a] [--b]") at width *)
(* 20 yields one line with content, " cmd [--a] [--b]" after the indent.   *)
(***************************************************************************)
Contains(text, part) ==
  \E i \in 0..(Len(text) - Len(part)) : SubSeq(text, i + 1, i + Len(part)) = part

ContinuationIndent == indent[1].indent - 1 + INDENT

CmdAtAmpleWidth ==
  (/\ last.op = "Synopsis" /\ last.arg[1] = JoinGroups(<<GCmd, GOptA, GOptB>>)
   /\ nevents = 1 /\ width = 20 /\ height = 0)
    => /\ {i \in 1..Len(lines) : lines[i] # <<>>} = {1}
       /\ LineText(lines[1]) =
            Spaces(indent[1].indent - 1)
              \o <<" ">> \o GCmd \o <<" ">> \o GOptA \o <<" ">> \o GOptB

C10_GroupsAtomic ==
  [][/\ (last'.op = "Synopsis" /\ raised' = "none" /\ ~truncated') =>
          \A groups \in SynopsisGroupLists :
            JoinGroups(groups) = last'.arg[1] =>
              \A k \in 1..Len(groups) :
                ContinuationIndent + 1 + DisplayWidth(groups[k]) < width
                  => \E i \in (Len(lines) + 1)..Len(lines') :
                       Contains(LineText(lines'[i]), groups[k])
     /\ CmdAtAmpleWidth']_vars

\* the group that just fits went whole to a continuation line
C10_Witness ==
  /\ last.op = "Synopsis" /\ last.arg[1] = JoinGroups(<<GCmd, GOptB, GEdge>>)
  /\ ~truncated /\ width = 20 /\ compact /\ Len(lines) >= 2
  /\ LineText(lines[2]) = Spaces(3) \o <<" ">> \o GEdge

(***************************************************************************)
(* C11.  Splitting a wide synopsis group loses no text: when Synopsis      *)
(* starts on an empty line buffer and nothing is truncated, the non-space  *)
(* characters of the lines the call finalizes, read in output order, are   *)
(* the non-space characters of the synopsis line in source order.  The     *)
(* code drops a delimiter that ends the group (partition leaves an empty   *)
(* remainder and the loop ends before prev_delimiter is written), so this  *)
(* fails for "cmd --aa=A," at width 9.                                     *)
(***************************************************************************)
NonSpace(text) == SelectSeq(text, LAMBDA c : c # " ")

\* the text of lines i..Len(ls) of ls, in output order
RECURSIVE TextFrom(_, _)
TextFrom(ls, i) ==
  IF i > Len(ls) THEN <<>> ELSE LineText(ls[i]) \o TextFrom(ls, i + 1)

C11_SplitLosesNoText ==
  [][(/\ last'.op = "Synopsis" /\ raised' = "none" /\ ~truncated'
      /\ tokens = <<>>)
       => NonSpace(TextFrom(lines', Len(lines) + 1))
            = NonSpace(last'.arg[1])]_vars

(***************************************************************************)
(* C12.  Synopsis never fails: no call of the session raises an error.     *)
(* The test at line 584 reads line[i + 1] after finding "|" at line[i]     *)
(* without checking that i + 1 is inside the line, so a line that ends in  *)
(* " |" raises IndexError and this fails.  An unbalanced bracket does not  *)
(* raise (C12_UnbalancedCompletes is reachable).                           *)
(***************************************************************************)
C12_SynopsisNeverFails == raised = "none"

\* the unclosed bracket group runs to the end of the line and stays whole
C12_UnbalancedCompletes ==
  /\ last.op = "Synopsis" /\ last.arg[1] = Unbalanced /\ raised = "none"
  /\ ~truncated /\ width = 20 /\ nevents = 1
  /\ Contains(LineText(lines[1]), <<"[", "b", " ", "c">>)

(***************************************************************************)
(* C13.  Font: every call XORs the bit of its attribute into the mask      *)
(* (None resets the mask to zero) and returns the sentinel followed by the *)
(* letter of the tag the new mask resolves to: code set gives Code; else   *)
(* bold and italic both set give BoldItalic; else bold gives Bold; else    *)
(* italic gives Italic; else Normal.  The mask is read here as an integer  *)
(* with bits 1 (bold), 2 (italic) and 4 (code).                            *)
(***************************************************************************)
Bit(a) == CASE a = "BOLD" -> 1 [] a = "ITALIC" -> 2 [] a = "CODE" -> 4

MaskOf(f) ==
  (IF "BOLD" \in f THEN 1 ELSE 0) + (IF "ITALIC" \in f THEN 2 ELSE 0)
    + (IF "CODE" \in f THEN 4 ELSE 0)

HasBit(m, b) == (m \div b) % 2 = 1

Xor(m, b) == IF HasBit(m, b) THEN m - b ELSE m + b

TagOf(m) ==
  IF HasBit(m, 4) THEN "Code"
  ELSE IF HasBit(m, 1) /\ HasBit(m, 2) THEN "BoldItalic"
  ELSE IF HasBit(m, 1) THEN "Bold"
  ELSE IF HasBit(m, 2) THEN "Italic"
  ELSE "Normal"

LetterOf(tag) == CHOOSE c \in DOMAIN EMBELLISHMENTS : EMBELLISHMENTS[c] = tag

C13_FontMarker ==
  [][last'.op = "Font" =>
       LET attr == last'.arg[1]
           m == IF attr = None THEN 0 ELSE Xor(MaskOf(font), Bit(attr[1]))
       IN /\ MaskOf(font') = m
          /\ returned' = <<CSI, LetterOf(TagOf(m))>>]_vars

\* bold, italic and code all set: code wins
C13_Witness ==
  /\ last.op = "Font" /\ nevents = 3 /\ font = {"BOLD", "ITALIC", "CODE"}
  /\ returned = <<CSI, "C">>

(***************************************************************************)
(* C14.  Marker round trip: _UnFormat applied to the control sequence Font *)
(* returned for bold, italic or code followed by a sentinel-free text      *)
(* gives back the text; and whatever the input, the result of _UnFormat    *)
(* holds no sentinel.                                                      *)
(***************************************************************************)
C14_RoundTrip ==
  /\ last.op = "FontUnFormat" => returned = last.arg[2]
  /\ last.op \in {"FontUnFormat", "UnFormat"}
       => \A i \in 1..Len(returned) : returned[i] # CSI

\* a second toggle of the same attribute: the "N" sequence is stripped too
C14_Witness ==
  /\ last.op = "FontUnFormat" /\ nevents = 2 /\ font = {}
  /\ last.arg[2] = <<"N", "a", "a">> /\ returned = <<"N", "a", "a">>

(***************************************************************************)
(* C15.  Indent monotonicity: a call that raises the level from p to q     *)
(* leaves the entries of the levels up to p as they were and gives every   *)
(* level k with p < k <= q an indent that is at least the indent of level  *)
(* k - 1.  Over several strictly increasing calls the levels an earlier    *)
(* call set are therefore still in order after a later one.                *)
(***************************************************************************)
C15_IndentMonotone ==
  [][level' > level =>
       /\ \A k \in 0..level : indent'[k + 1] = indent[k + 1]
       /\ \A k \in (level + 1)..level' :
            indent'[k + 1].indent >= indent'[k].indent]_vars

\* two raising calls, 0 to 1 then 1 to 3, the second with increment 0
C15_Witness ==
  /\ last.op = "SetIndent" /\ last.arg = <<3, 0, None>> /\ nevents = 2
  /\ level = 3 /\ Len(indent) = 4 /\ indent[2].indent = 8
  /\ indent[3].indent = 9 /\ indent[4].indent = 10

(***************************************************************************)
(* C16.  No stored run is empty: every token of the line buffer and of     *)
(* every output line has a non-empty text.  _MergeOrAddToken drops empty   *)
(* texts, but the last branch of _Truncate stores word[:-trim] whatever is *)
(* left of it: at width 3 the first token of the line is trimmed by its    *)
(* whole length and stored empty, so this fails.                           *)
(***************************************************************************)
C16_NoEmptyRun ==
  /\ \A j \in 1..Len(tokens) : tokens[j].text # <<>>
  /\ \A i \in 1..Len(lines) :
       \A j \in 1..Len(lines[i]) : lines[i][j].text # <<>>

(***************************************************************************)
(* C17.  Every output line but the last is empty or ends in a token whose  *)
(* text is not whitespace-only: _NewLine strips the trailing whitespace    *)
(* tokens of the last line before it appends the next one.                 *)
(***************************************************************************)
C17_NoTrailingSpace ==
  \A i \in 1..(Len(lines) - 1) :
    lines[i] = <<>> \/ ~IsSpace(lines[i][Len(lines[i])].text)

\* the indent-only line a synopsis starts with at width 3 was stripped to
\* nothing when the next line was appended
C17_Witness ==
  /\ last.op = "Synopsis" /\ nevents = 1 /\ width = 3 /\ ~compact
  /\ ~truncated /\ Len(lines) >= 2 /\ lines[1] = <<>> /\ lines[2] # <<>>

(***************************************************************************)
(* C18.  In compact mode no line of the output is empty.  _NewLine drops   *)
(* an empty token list in compact mode, but a line that holds only its     *)
(* indent is appended as a whitespace token, and the next _NewLine strips  *)
(* that token and leaves the line empty in the output, so this fails.      *)
(***************************************************************************)
C18_CompactNoBlankLine ==
  compact => \A i \in 1..Len(lines) : lines[i] # <<>>

(***************************************************************************)
(* C19.  Truncation triggered by a wrap of Fill: with the line in progress *)
(* (indent included) ending at column fill and available = width - fill,   *)
(* the last output line is that line followed by the marker when           *)
(* available is 3; followed by a space, the first available - 4            *)
(* characters of the marker-free word and the marker when available is 4   *)
(* or more; and cut back to its first width - 3 columns, then the marker,  *)
(* when available is less than 3.  In every case the line, marker          *)
(* included, is at most width columns wide.  At a list level of indent 0   *)
(* Fill starts the line with a fill of -1 and a separating space, so the   *)
(* line in progress is one column wider than the fill says and the         *)
(* truncated line is width + 1 columns wide: this fails.                   *)
(***************************************************************************)
\* the text of the line in progress when word is measured
LineInProgress(pre) ==
  IF pre.fill = 0 THEN LineText(pre.tokens) \o Spaces(FillColumn(pre))
  ELSE LineText(pre.tokens)

\* the claimed last line when the word that takes pre to post triggers
\* truncation
TruncatedAsClaimed(pre, post, word) ==
  LET available == pre.width - FillColumn(pre)
      started == LineInProgress(pre)
      out == post.lines[Len(post.lines)]
  IN /\ LineWidth(out) <= pre.width
     /\ LineText(out) =
          (IF available = 3 THEN started
           ELSE IF available >= 4
             THEN started \o <<" ">> \o Prefix(UnFormat(word), available - 4)
           ELSE Prefix(started, pre.width - 3)) \o MarkerString

\* every word of words from the k-th on that triggers truncation leaves the
\* claimed last line
RECURSIVE TruncationFrom(_, _, _)
TruncationFrom(pre, words, k) ==
  \/ k > Len(words)
  \/ LET post == FillWord(pre, words[k])
     IN /\ (~pre.truncated /\ post.truncated)
             => TruncatedAsClaimed(pre, post, words[k])
        /\ TruncationFrom(post, words, k + 1)

C19_TruncatedLineFits ==
  [][last'.op = "Fill" =>
       /\ TruncationFrom(Blank(Self), Split(last'.arg[1]), 1)
       /\ (~truncated /\ truncated')
            => LineWidth(lines'[Len(lines')]) <= width']_vars

\* six columns available: a space and two characters of the word, then the
\* marker
C19_CutWord ==
  /\ last.op = "Fill" /\ last.arg[1] = LongWord /\ nevents = 1
  /\ width = 9 /\ height = 1 /\ ~compact /\ truncated
  /\ LineText(lines[1]) = Spaces(3) \o <<" ", "a", "b", ".", ".", ".">>

\* three columns available: the marker alone
C19_ExactFit ==
  /\ last.op = "Fill" /\ last.arg[1] = Styled /\ nevents = 1
  /\ width = 9 /\ height = 1 /\ ~compact /\ truncated
  /\ LineText(lines[1]) = Spaces(4) \o <<"a", "b", ".", ".", ".">>

\* two columns available: the line is cut back to width - 3 columns
C19_CutBack ==
  /\ last.op = "Fill" /\ last.arg[1] = OneTwoThree /\ nevents = 1
  /\ width = 9 /\ height = 1 /\ ~compact /\ truncated
  /\ LineText(lines[1]) = Spaces(4) \o <<"o", "n", ".", ".", ".">>

(***************************************************************************)
(* C20.  All lines of one paragraph share one left indent: when Fill is    *)
(* called with an empty line buffer at fill column 0, at a level whose     *)
(* indent is n, and nothing is truncated, every line the call starts that  *)
(* holds a word (the lines it finalizes and the line it leaves in          *)
(* progress) begins with exactly n spaces.  Fill indents the first line by *)
(* n - 1 and relies on the separating space for the n-th column, but a     *)
(* fill of 0 also means that no line was started: with n = 1 the first     *)
(* word gets no space at all, and with n = 0 at a list level the fill of   *)
(* -1 puts a space in front of it, so this fails.                          *)
(***************************************************************************)
\* the lines a call started: those it appended and the one in progress
StartedLines == SubSeq(lines', Len(lines) + 1, Len(lines')) \o <<tokens'>>

BeginsWithSpaces(line, n) ==
  WordsOfLine(line) # <<>> => Len(LeadingSpaces(LineText(line))) = n

C20_OneLeftIndent ==
  [][(/\ last'.op = "Fill" /\ fill = 0 /\ tokens = <<>> /\ ~truncated')
       => \A i \in 1..Len(StartedLines) :
            BeginsWithSpaces(StartedLines[i], indent[level + 1].indent)]_vars

(***************************************************************************)
(* C21.  After a bullet item List(level) with level >= 1, the first word   *)
(* of the immediately following Fill is placed on the line of the bullet   *)
(* glyph whatever its width: no line is finalized for it and the line in   *)
(* progress becomes the bullet line, a space and the word.  That word      *)
(* clears the ignore-width flag, so each later word is wrapped exactly     *)
(* when its width plus one reaches the columns left after the fill column. *)
(* Unless the output is truncated, the bullet line of the output begins    *)
(* with the glyph, a space and the first word.                             *)
(***************************************************************************)
IsBulletItem(ev) ==
  ev.op = "List" /\ ev.arg[1] >= 1 /\ ev.arg[2] = None /\ ev.arg[3] = FALSE

\* the glyph that ends the line in progress after a bullet item at lvl
EndsInGlyph(toks, lvl) ==
  EndsWith(LineText(toks), <<Bullets[((lvl - 1) % Len(Bullets)) + 1]>>)

\* the bullet line once the first word has joined it
BulletLine(toks, word) == LineText(toks) \o <<" ">> \o UnFormat(word)

\* x is the state the first word leaves when Fill starts in pre
JoinsBullet(pre, x, word) ==
  /\ x.lines = pre.lines
  /\ LineText(x.tokens) = BulletLine(pre.tokens, word)
  /\ ~x.ignore_width

\* y is the state a later word leaves when it is measured in x
NormalWrapCheck(x, y, word) ==
  IF DisplayWidth(word) + 1 >= x.width - x.fill
  THEN LineText(y.tokens) =
         Spaces(x.indent[x.level + 1].indent) \o UnFormat(word)
  ELSE /\ y.lines = x.lines
       /\ LineText(y.tokens) = BulletLine(x.tokens, word)

RECURSIVE LaterWords(_, _, _)
LaterWords(x, words, k) ==
  \/ k > Len(words)
  \/ /\ NormalWrapCheck(x, FillWord(x, words[k]), words[k])
     /\ LaterWords(FillWord(x, words[k]), words, k + 1)

BulletFill(pre, words) ==
  /\ JoinsBullet(pre, FillWord(Blank(pre), words[1]), words[1])
  /\ LaterWords(FillWord(Blank(pre), words[1]), words, 2)

\* the line of the output, or the line in progress, that holds the bullet
BulletLineOut ==
  IF Len(lines') > Len(lines) THEN lines'[Len(lines) + 1] ELSE tokens'

C21_FirstWordJoinsBullet ==
  [][(IsBulletItem(last) /\ last'.op = "Fill") =>
       /\ EndsInGlyph(tokens, last.arg[1])
       /\ BulletFill(Self, Split(last'.arg[1]))
       /\ ~truncated' =>
            IsPrefix(BulletLine(tokens, Split(last'.arg[1])[1]),
                     LineText(BulletLineOut))]_vars

\* a ten-column word after a bullet at width 9: it stays on the bullet
\* line and the next word is wrapped
C21_Witness ==
  /\ last = Event("Fill", <<LongWord>>) /\ nevents = 2
  /\ width = 9 /\ height = 0 /\ compact /\ Len(lines) = 1
  /\ LineText(lines[1]) =
       <<" ", " ", "o", " ", "a", "b", "c", "d", "e", "f", "g", "h", "i", "j">>
  /\ LineText(tokens) = Spaces(4) \o <<"k", "l">>

(***************************************************************************)
(* C22.  Re-entering a list level is stable: when the same kind of list    *)
(* item (a bullet, or a definition with a non-empty text) is issued twice  *)
(* in a row at the same level, the level's indent and hanging indent after *)
(* the second item equal their values after the first, for every level and *)
(* from every reachable state.                                             *)
(***************************************************************************)
IsDefinition(ev) ==
  /\ ev.op = "List" /\ ev.arg[1] >= 1 /\ ~ev.arg[3]
  /\ ev.arg[2] # None /\ ev.arg[2][1] # <<>>

\* b repeats the kind and the level of the item a
SameKindOfItem(a, b) ==
  /\ (IsBulletItem(a) /\ IsBulletItem(b)) \/ (IsDefinition(a) /\ IsDefinition(b))
  /\ a.arg[1] = b.arg[1]

C22_ReentryStable ==
  [][SameKindOfItem(last, last') =>
       /\ level' = level
       /\ indent'[last.arg[1] + 1] = indent[last.arg[1] + 1]]_vars

\* a bullet repeated at level 1 after an empty definition item had set the
\* level's hanging indent to 1: both bullets recompute the indent as 1 + 2
C22_Witness ==
  /\ nevents = 3 /\ IsBulletItem(last) /\ last.arg[1] = 1 /\ compact
  /\ indent[2] = [indent |-> 3, hanging_indent |-> 1]
  /\ Len(lines) >= 1 /\ LineText(lines[Len(lines)]) = <<" ", "o">>
  /\ LineText(tokens) = <<" ", "o">>

(***************************************************************************)
(* C23.  After any sequence of events with non-negative list levels the    *)
(* current nesting level indexes an existing entry of the indent stack     *)
(* (0 <= level < stack length), and every entry that List, Fill, Example   *)
(* or Synopsis reads exists: entry 0 for Synopsis, the entry of the        *)
(* current level for Fill and Example, and for a list item at any level    *)
(* the entry of that level once _SetIndent has returned.                   *)
(***************************************************************************)
\* the stack of s has an entry for level lvl
HasEntry(s, lvl) == 0 <= lvl /\ lvl < Len(s.indent)

\* the state in which List reads the entry of the item's level
ItemIndentSet(self, a) ==
  SetIndent(Flush(self), a[1],
            IF a[2] = None THEN (IF a[1] > 1 THEN 2 ELSE 4)
            ELSE IF a[2][1] # <<>> THEN 4 ELSE 1,
            IF a[2] = None THEN <<2>>
            ELSE IF a[2][1] # <<>> THEN <<3>> ELSE <<0>>)

C23_LevelInStack ==
  /\ HasEntry(Self, level)
  /\ HasEntry(Self, 0)
  /\ \A a \in ListArgs :
       (a[1] >= 1 /\ ~a[3]) => HasEntry(ItemIndentSet(Self, a), a[1])

\* level 3 entered and left for level 1, where Fill reads the entry of the
\* level: the stack keeps its four entries
C23_Witness ==
  /\ nevents = 3 /\ last.op = "Fill" /\ level = 1 /\ Len(indent) = 4
  /\ LineText(tokens) # <<>>

(***************************************************************************)
(* C24.  Finish loses no buffered content: at every event boundary, if the *)
(* line buffer holds at least one token then the fill column is non-zero,  *)
(* so that when no truncation has occurred Finish finalizes the pending    *)
(* tokens into the output and leaves the line buffer empty.  At a list     *)
(* level of indent 0 Fill starts the line with a fill of -1 and adds a     *)
(* separating space before the word; a word of no width (a control         *)
(* sequence on its own) then leaves the fill column at 0 with the space in *)
(* the line buffer, and _Flush skips it: this fails.                       *)
(***************************************************************************)
C24_BufferedImpliesFill ==
  /\ tokens # <<>> => fill # 0
  /\ (last.op = "Finish" /\ ~truncated) => tokens = <<>>

(***************************************************************************)
(* C25.  Synopsis always terminates: for every input line and every        *)
(* positive width the group extraction loop and the loop of                *)
(* _SplitWideSynopsisGroup (which tries the delimiters " | ", " : ", " "   *)
(* and ",") reach their end after finitely many steps.  Every iteration of *)
(* the extraction loop moves the index forward, every pass of the          *)
(* splitting loop leaves a strictly shorter group, and a loop that was     *)
(* entered is left (by its end, or for the extraction loop by the          *)
(* IndexError of C12).                                                     *)
(***************************************************************************)
\* a step inside a loop makes progress towards the loop's end
LoopProgress ==
  /\ (frame.loop = "scan" /\ frame'.loop = "scan") => frame'.i > frame.i
  /\ (frame.loop = "split" /\ frame'.loop = "split")
       => Len(frame'.group) < Len(frame.group)

C25_SynopsisTerminates ==
  /\ [][LoopProgress]_vars
  /\ (frame.loop # "none") ~> (frame.loop = "none")

\* a group split at width 9: the loop returned after three passes, on
\* continuation lines
C25_Witness ==
  /\ last.op = "return" /\ frame = NoFrame /\ nevents = 5
  /\ width = 9 /\ height = 0 /\ Len(lines) >= 2

====
